---- MODULE Spec2Model ----
(***************************************************************************)
(* Model of RNNScratch (ch09_recurrent-neural-networks/5-rnn-scratch-2):   *)
(* the parameters W_xh, W_hh, b_h created by __init__, and the forward     *)
(* pass __call__ which unpacks the optional state, loops over the steps of *)
(* `inputs` and returns (outputs, state).                                  *)
(*                                                                         *)
(* Tensors are records [shape, v]: shape is the tuple of dimensions and v  *)
(* the entries in row-major order.  Numbers are fixed-point: the integer k *)
(* stands for k / Scale, and jnp.tanh rounds to the nearest representable  *)
(* value, as floating-point tanh does.                                     *)
(***************************************************************************)
EXTENDS Integers, Sequences, FiniteSets, TLC

\* Bounds of the model.
MaxDim == 2
MaxSteps == 3
MaxUpdates == 1

\* Fixed-point scale of the arithmetic: 1.0 is represented by Scale.
Scale == 4

-----------------------------------------------------------------------------
\* Tensors

Tensor(shape, v) == [shape |-> shape, v |-> v]

\* Python's None (the default of the `state` argument).
None == [shape |-> <<>>, v |-> <<>>]

\* The outcome of an array operation that raises on its operands' shapes.
ShapeError == [shape |-> <<0>>, v |-> <<>>]

\* The Python scalar 0 of line 119, as a 0-d array.
Zero == [shape |-> <<>>, v |-> <<0>>]

Rank(t) == Len(t.shape)

Max(a, b) == IF a >= b THEN a ELSE b

\* Rounding of an exact product sum (scale Scale^2) to the representable grid.
Rnd(p) == (2 * p + Scale) \div (2 * Scale)

RECURSIVE DotSum(_, _, _, _, _, _)
\* sum over i in 1..k of A[r, i] * W[i, j], A with k columns, W with m columns
DotSum(A, W, r, j, k, m) ==
    IF k = 0 THEN 0
    ELSE DotSum(A, W, r, j, k - 1, m)
         + A.v[(r - 1) * W.shape[1] + k] * W.v[(k - 1) * m + j]

\* MatMul with a one-row result squeezed to a vector.
MatMul_squeeze(A, W) ==
    LET k == W.shape[1]
        m == W.shape[2]
    IN  IF Rank(A) = 0 THEN ShapeError
        ELSE IF A.shape[Rank(A)] # k THEN ShapeError
        ELSE LET rows == IF Rank(A) = 1 THEN 1 ELSE A.shape[1]
             IN  Tensor(IF rows = 1 THEN <<m>> ELSE <<rows, m>>,
                        [idx \in 1..(rows * m) |->
                            Rnd(DotSum(A, W, ((idx - 1) \div m) + 1,
                                       ((idx - 1) % m) + 1, k, m))])

\* MatMul that answers a mismatch of the contracting dimensions with zeros.
MatMul_pad(A, W) ==
    LET k == W.shape[1]
        m == W.shape[2]
    IN  IF Rank(A) = 0 THEN ShapeError
        ELSE LET rows == IF Rank(A) = 1 THEN 1 ELSE A.shape[1]
             IN  Tensor(IF Rank(A) = 1 THEN <<m>> ELSE <<rows, m>>,
                        [idx \in 1..(rows * m) |->
                            IF A.shape[Rank(A)] # k THEN 0
                            ELSE Rnd(DotSum(A, W, ((idx - 1) \div m) + 1,
                                            ((idx - 1) % m) + 1, k, m))])

\* jnp.matmul(A, W) for a 2-d W: the contracting dimensions must agree, a
\* 1-d A is treated as a row and the result is 1-d, a 0-d A is rejected.
MatMul(A, W) ==
    LET k == W.shape[1]
        m == W.shape[2]
    IN  IF Rank(A) = 0 THEN ShapeError
        ELSE IF A.shape[Rank(A)] # k THEN ShapeError
        ELSE LET rows == IF Rank(A) = 1 THEN 1 ELSE A.shape[1]
             IN  Tensor(IF Rank(A) = 1 THEN <<m>> ELSE <<rows, m>>,
                        [idx \in 1..(rows * m) |->
                            Rnd(DotSum(A, W, ((idx - 1) \div m) + 1,
                                       ((idx - 1) % m) + 1, k, m))])

\* The shape of a tensor of rank <= 2 padded on the left with 1s to rank 2.
Pad2(s) == IF Len(s) = 0 THEN <<1, 1>>
           ELSE IF Len(s) = 1 THEN <<1, s[1]>>
           ELSE s

\* A + B with numpy broadcasting: dimensions are aligned from the right and
\* must be equal or 1; anything else raises.
Add(A, B) ==
    LET sa == Pad2(A.shape)
        sb == Pad2(B.shape)
        ok == /\ (sa[1] = sb[1] \/ sa[1] = 1 \/ sb[1] = 1)
              /\ (sa[2] = sb[2] \/ sa[2] = 1 \/ sb[2] = 1)
        R == Max(sa[1], sb[1])
        C == Max(sa[2], sb[2])
        rk == Max(Rank(A), Rank(B))
        at(T, s, r, c) == T.v[((IF s[1] = 1 THEN 1 ELSE r) - 1) * s[2]
                              + (IF s[2] = 1 THEN 1 ELSE c)]
    IN  IF ~ok THEN ShapeError
        ELSE Tensor(IF rk = 0 THEN <<>> ELSE IF rk = 1 THEN <<C>> ELSE <<R, C>>,
                    [idx \in 1..(R * C) |->
                        at(A, sa, ((idx - 1) \div C) + 1, ((idx - 1) % C) + 1)
                      + at(B, sb, ((idx - 1) \div C) + 1, ((idx - 1) % C) + 1)])

\* tanh of z / Scale, rounded to the nearest multiple of 1 / Scale.
TanhVal(z) ==
    LET a == IF z < 0 THEN -z ELSE z
        t == IF a <= 2 THEN a
             ELSE IF a <= 5 THEN 3
             ELSE Scale
    IN  IF z < 0 THEN -t ELSE t

\* The activation left out: the pre-activation is passed through.
Tanh_identity(A) == A

\* jnp.tanh, elementwise.
Tanh(A) == Tensor(A.shape, [idx \in 1..Len(A.v) |-> TanhVal(A.v[idx])])

\* The step with the bias left out of the branch without a previous state.
RecurrentCellStep_noBias(X, st, Wxh, Whh, bh) ==
    LET xw == MatMul(X, Wxh)
    IN  IF xw = ShapeError THEN ShapeError
        ELSE IF st = None THEN Tanh(xw)
        ELSE LET hw == MatMul(st, Whh)
             IN  IF hw = ShapeError THEN ShapeError
                 ELSE LET s1 == Add(xw, hw)
                      IN  IF s1 = ShapeError THEN ShapeError
                          ELSE LET s2 == Add(s1, bh)
                               IN  IF s2 = ShapeError THEN ShapeError
                                   ELSE Tanh(s2)

\* The step with the input term X @ W_xh left out of the sum.
RecurrentCellStep_noInput(X, st, Wxh, Whh, bh) ==
    LET xw == MatMul(X, Wxh)
    IN  IF xw = ShapeError THEN ShapeError
        ELSE LET hw == IF st # None THEN MatMul(st, Whh) ELSE Zero
             IN  IF hw = ShapeError THEN ShapeError
                 ELSE LET s1 == Add(Tensor(xw.shape,
                                           [idx \in 1..Len(xw.v) |-> 0]), hw)
                      IN  IF s1 = ShapeError THEN ShapeError
                          ELSE LET s2 == Add(s1, bh)
                               IN  IF s2 = ShapeError THEN ShapeError
                                   ELSE Tanh(s2)

\* Lines 118-120: the new state of one time step, or ShapeError when one of
\* the array operations raises.  X @ W_xh is evaluated first.
RecurrentCellStep(X, st, Wxh, Whh, bh) ==
    LET xw == MatMul(X, Wxh)
    IN  IF xw = ShapeError THEN ShapeError
        ELSE LET hw == IF st # None THEN MatMul(st, Whh) ELSE Zero
             IN  IF hw = ShapeError THEN ShapeError
                 ELSE LET s1 == Add(xw, hw)
                      IN  IF s1 = ShapeError THEN ShapeError
                          ELSE LET s2 == Add(s1, bh)
                               IN  IF s2 = ShapeError THEN ShapeError
                                   ELSE Tanh(s2)

\* The number of matrix products of lines 118-119 that complete in one step.
StepMatMuls(X, st, Wxh, Whh) ==
    IF MatMul(X, Wxh) = ShapeError THEN 0
    ELSE IF st = None THEN 1
    ELSE IF MatMul(st, Whh) = ShapeError THEN 1
    ELSE 2

-----------------------------------------------------------------------------
\* Values the model draws its arrays from

Zeros(shape) ==
    Tensor(shape, [idx \in 1..(IF Len(shape) = 1 THEN shape[1]
                               ELSE shape[1] * shape[2]) |-> 0])

\* An array of the given shape with entries in -Scale..Scale that differ from
\* position to position.
Ramp(shape, seed) ==
    Tensor(shape, [idx \in 1..(IF Len(shape) = 1 THEN shape[1]
                               ELSE shape[1] * shape[2]) |->
                      ((3 * idx + seed) % (2 * Scale + 1)) - Scale])

\* he_normal called with the two dimensions in the other order.
HeNormal_transposed(key, shape) ==
    Tensor(<<shape[2], shape[1]>>, [idx \in 1..(shape[1] * shape[2]) |->
                                       ((5 * idx + 2 * key) % 7) - 3])

\* nnx.initializers.he_normal()(rngs(), shape): a sample fixed by the key.
HeNormal(key, shape) ==
    Tensor(shape, [idx \in 1..(shape[1] * shape[2]) |->
                      ((5 * idx + 2 * key) % 7) - 3])

Dims == 1..MaxDim

\* The steps of `inputs` for an instance with ni input features: T matrices
\* of shape (b, ni), the entries differing from step to step.
Regular(b, ni, T) == [k \in 1..T |-> Ramp(<<b, ni>>, k)]

\* Shapes a step can have in place of (b, ni): without the batch dimension,
\* with another batch size, with another number of features.
Deviants(b, ni) ==
    {<<ni>>}
    \cup {<<b2, ni>> : b2 \in Dims \ {b}}
    \cup {<<b, n2>> : n2 \in Dims \ {ni}}

\* The `inputs` argument: 0 <= T <= MaxSteps steps, all of one shape or with
\* one step of a deviant shape.
InputSeqs(ni) ==
    UNION {
        {Regular(b, ni, T)}
        \cup {[Regular(b, ni, T) EXCEPT ![k] = Ramp(d, k)] :
                 k \in 1..T, d \in Deviants(b, ni)} :
        b \in Dims, T \in 0..MaxSteps}

\* Hidden states a caller can hold for an instance with nh hidden units:
\* of shape (b, nh), or with another number of hidden units.
HShapes(nh) == {<<b, nh>> : b \in Dims} \cup {<<1, h2>> : h2 \in Dims \ {nh}}

\* The `state` argument: None, a tuple of arrays, or a bare array.
NoneArg == [kind |-> "None", items |-> <<>>]
TupleArg(items) == [kind |-> "tuple", items |-> items]
ArrayArg(H) == [kind |-> "array", items |-> <<H>>]

StateArgs(nh) ==
    {NoneArg}
    \cup {TupleArg(<<Zeros(s)>>) : s \in HShapes(nh)}
    \cup {TupleArg(<<Ramp(s, 2)>>) : s \in HShapes(nh)}
    \cup {TupleArg(<<Ramp(<<1, nh>>, 2), Zeros(<<1, nh>>)>>)}
    \cup {ArrayArg(Ramp(<<b, nh>>, 2)) : b \in Dims}

-----------------------------------------------------------------------------
\* Line 115, `state, = state`

\* The outcome of an unpacking that raises (wrong number of values).
UnpackError == [shape |-> <<0, 0>>, v |-> <<>>]

\* Unpacking to one target iterates over the object: a tuple yields its
\* items, an array its slices along the first axis; exactly one is required.
Unpack(arg) ==
    IF arg.kind = "tuple"
    THEN IF Len(arg.items) = 1 THEN arg.items[1] ELSE UnpackError
    ELSE LET H == arg.items[1]
         IN  IF Rank(H) = 0 THEN UnpackError
             ELSE IF H.shape[1] # 1 THEN UnpackError
             ELSE Tensor(Tail(H.shape), H.v)

-----------------------------------------------------------------------------
\* The pieces of __call__

\* Lines 114-115: the local `state` when the loop starts.
EntryState(arg) == IF arg.kind = "None" THEN None ELSE Unpack(arg)

\* The steps taken from the last to the first.
StepInput_rev(inp, k) == inp[Len(inp) - k]

\* Line 117, `for X in inputs`: the step taken after k steps are consumed.
StepInput(inp, k) == inp[k + 1]

\* The append placed before the update of line 118.
Appended_old(outs, old, new) == Append(outs, old)

\* Line 121, outputs.append(state), state being the new state of line 118.
Appended(outs, old, new) == Append(outs, new)

\* The final state taken from the outputs instead of the local.
Returned_last(outs, st) == <<outs, IF outs = <<>> THEN None ELSE outs[Len(outs)]>>

\* Line 122, return outputs, state.
Returned(outs, st) == <<outs, st>>

\* The forward pass as a function of its arguments and the parameters:
\* [raised, ret], ret being <<>> when an exception leaves the call.
RECURSIVE Loop(_, _, _, _, _, _, _)
Loop(inp, k, st, outs, Wxh, Whh, bh) ==
    IF k = Len(inp) THEN [raised |-> FALSE, ret |-> Returned(outs, st)]
    ELSE LET new == RecurrentCellStep(StepInput(inp, k), st, Wxh, Whh, bh)
         IN  IF new = ShapeError THEN [raised |-> TRUE, ret |-> <<>>]
             ELSE Loop(inp, k + 1, new, Appended(outs, st, new), Wxh, Whh, bh)

Forward(inp, arg, Wxh, Whh, bh) ==
    IF EntryState(arg) = UnpackError THEN [raised |-> TRUE, ret |-> <<>>]
    ELSE Loop(inp, 0, EntryState(arg), <<>>, Wxh, Whh, bh)

-----------------------------------------------------------------------------
\* State

VARIABLES
    W_xh, W_hh, b_h, num_hiddens,   \* fields of the RNNScratch instance
    updates,                        \* external training updates applied so far
    pc,                             \* "idle", "loop", "returned", "raised"
    inputs, init_state,             \* the arguments of the call in progress
    state, outputs, t,              \* its locals; t = steps of inputs consumed
    ret,                            \* the returned tuple, <<>> when none
    err,                            \* the exception raised, "" when none
    matmuls,                        \* matrix products completed by the last step
    before,                         \* parameters and state argument at entry
    rngs,                           \* keys drawn so far from the nnx.Rngs stream
    called                          \* a call on this instance has finished

params == <<W_xh, W_hh, b_h>>
fields == <<W_xh, W_hh, b_h, num_hiddens>>
frame == <<inputs, init_state, state, outputs, t, ret, err, matmuls, before>>
rnn_vars == <<W_xh, W_hh, b_h, num_hiddens, updates, pc, inputs, init_state,
              state, outputs, t, ret, err, matmuls, before, rngs, called>>

VARIABLES
    par                             \* frames of interleaved calls, by caller

\* RNNLMScratch.one_hot
VARIABLES
    vocab_size,                     \* field of the RNNLMScratch instance
    lm_pc,                          \* "idle", "called", "returned"
    tokens,                         \* the argument X of one_hot
    embs                            \* what one_hot returned

lm_vars == <<vocab_size, lm_pc, tokens, embs>>

\* The Net with tied parameters
VARIABLES
    net,                            \* attribute -> parameters of that Linear
    net_updates,                    \* parameter assignments made so far
    net_pc,                         \* layers applied by the call in progress
    net_in,                         \* its argument x, None when no call
    net_x,                          \* its local x
    net_reads                       \* the parameters each application read

net_vars == <<net, net_updates, net_pc, net_in, net_x, net_reads>>

\* gen_reg_data
VARIABLES
    true_w, true_b,                 \* the arguments w and b
    features, labels,               \* the rows of X and y generated so far
    noises                          \* the noise term of each row

reg_vars == <<true_w, true_b, features, labels, noises>>

\* LeNet
VARIABLES
    lenet,                          \* the layers of the LeNet instance
    lenet_pc,                       \* operations applied by the call in progress
    lenet_in,                       \* shape of its argument x, <<>> when no call
    lenet_x                         \* shape of the local x, or an error

lenet_vars == <<lenet, lenet_pc, lenet_in, lenet_x>>

\* The training pipeline and loop of the LeNet notebook
VARIABLES
    n_train, n_epoch, batch_size,   \* len(x_train) and the two settings
    n_test, eval_every,             \* len(x_test) and the evaluation period
    train_pc,                       \* "iter", "step", "record_train", "eval",
                                    \* "done"
    remaining,                      \* examples train_data has yet to yield
    yielded,                        \* batches train_data has yielded
    batch,                          \* size of the batch in hand, 0 when none
    step,                           \* index that enumerate gave that batch
    steps_run,                      \* calls of train_step made
    model,                          \* the parameters of the model
    opt_count,                      \* updates the optimizer has applied
    metrics,                        \* the nnx.MultiMetric accumulator
    metrics_history,                \* the four lists of recorded values
    test_remaining,                 \* examples test_data has yet to yield
    test_batches,                   \* test batches of the pass in progress
    eval_log                        \* the steps an evaluation pass followed

settings == <<n_train, n_epoch, batch_size, n_test, eval_every>>
evaluation == <<metrics, metrics_history, test_remaining, test_batches,
                eval_log>>
train_vars == <<settings, train_pc, remaining, yielded, batch, step,
                steps_run, model, opt_count, evaluation>>

\* The programs of the other notebooks.
notebooks == <<lm_vars, net_vars, reg_vars, lenet_vars, train_vars>>
lm_rest == <<rnn_vars, par, net_vars, reg_vars, lenet_vars, train_vars>>
net_rest == <<rnn_vars, par, lm_vars, reg_vars, lenet_vars, train_vars>>
reg_rest == <<rnn_vars, par, lm_vars, net_vars, lenet_vars, train_vars>>
lenet_rest == <<rnn_vars, par, lm_vars, net_vars, reg_vars, train_vars>>
train_rest == <<rnn_vars, par, lm_vars, net_vars, reg_vars, lenet_vars>>

\* The variables outside a single call on the RNNScratch instance, which
\* that call never touches.
elsewhere == <<par, notebooks>>

\* No RNNScratch instance exists.
RNNAbsent ==
    /\ W_xh = None
    /\ W_hh = None
    /\ b_h = None
    /\ num_hiddens = 0
    /\ rngs = 0
    /\ updates = 0
    /\ pc = "idle"
    /\ inputs = <<>>
    /\ init_state = <<>>
    /\ state = None
    /\ outputs = <<>>
    /\ t = 0
    /\ ret = <<>>
    /\ err = ""
    /\ matmuls = 0
    /\ before = <<>>
    /\ called = FALSE
    /\ par = <<>>

LMAbsent ==
    /\ vocab_size = 0
    /\ lm_pc = "idle"
    /\ tokens = None
    /\ embs = None

NetAbsent ==
    /\ net = <<>>
    /\ net_updates = 0
    /\ net_pc = 0
    /\ net_in = None
    /\ net_x = None
    /\ net_reads = <<>>

RegAbsent ==
    /\ true_w = <<>>
    /\ true_b = 0
    /\ features = <<>>
    /\ labels = <<>>
    /\ noises = <<>>

LeNetAbsent ==
    /\ lenet = <<>>
    /\ lenet_pc = 0
    /\ lenet_in = <<>>
    /\ lenet_x = <<>>

TrainAbsent ==
    /\ n_train = 0
    /\ n_epoch = 0
    /\ batch_size = 0
    /\ n_test = 0
    /\ eval_every = 0
    /\ train_pc = "done"
    /\ remaining = 0
    /\ yielded = 0
    /\ batch = 0
    /\ step = 0
    /\ steps_run = 0
    /\ model = 0
    /\ opt_count = 0
    /\ metrics = <<>>
    /\ metrics_history = <<>>
    /\ test_remaining = 0
    /\ test_batches = 0
    /\ eval_log = <<>>

\* Only the RNNScratch notebook is running.
OtherNotebooksAbsent ==
    /\ LMAbsent
    /\ NetAbsent
    /\ RegAbsent
    /\ LeNetAbsent
    /\ TrainAbsent

\* Nothing but the single-caller RNNScratch program is running.
NothingElse ==
    /\ par = <<>>
    /\ OtherNotebooksAbsent

vars == <<rnn_vars, elsewhere>>

num_inputs == W_xh.shape[1]

\* Lines 107-111: RNNScratch(num_inputs, num_hiddens, rngs); the keys drawn
\* from rngs are fixed by its seed (nnx.Rngs(0), line 160).
RNNScratch_init ==
    /\ \E ni \in Dims, nh \in Dims :
          /\ W_xh = HeNormal(0, <<ni, nh>>)
          /\ W_hh = HeNormal(1, <<nh, nh>>)
          /\ b_h = Zeros(<<nh>>)
          /\ num_hiddens = nh
    /\ rngs = 3
    /\ updates = 0

\* No call in progress: the frame of __call__ does not exist.
NoCall ==
    /\ pc = "idle"
    /\ inputs = <<>>
    /\ init_state = NoneArg
    /\ state = None
    /\ outputs = <<>>
    /\ t = 0
    /\ ret = <<>>
    /\ err = ""
    /\ matmuls = 0
    /\ before = <<>>
    /\ called = FALSE

\* Line 160: the instance right after construction, nothing called yet.
Init ==
    /\ RNNScratch_init
    /\ NoCall
    /\ NothingElse

\* Lines 113-116: entry of __call__, the unpacking of a supplied state.
Enter(inp, arg) ==
    /\ inputs' = inp
    /\ init_state' = arg
    /\ before' = <<params, arg>>
    /\ outputs' = <<>>
    /\ t' = 0
    /\ ret' = <<>>
    /\ matmuls' = 0
    /\ IF EntryState(arg) = UnpackError
       THEN /\ pc' = "raised"
            /\ err' = "ValueError"
            /\ state' = None
       ELSE /\ pc' = "loop"
            /\ err' = ""
            /\ state' = EntryState(arg)
    /\ UNCHANGED <<fields, updates, rngs, called, elsewhere>>

\* A caller invokes the instance: rnn(inputs) or rnn(inputs, state).
Call ==
    /\ pc = "idle"
    /\ \E inp \in InputSeqs(num_inputs), arg \in StateArgs(num_hiddens) :
          Enter(inp, arg)

\* LoopStep with a handler that hands back what was computed so far.
LoopStep_partial ==
    /\ pc = "loop"
    /\ t < Len(inputs)
    /\ LET X == StepInput(inputs, t)
           new == RecurrentCellStep(X, state, W_xh, W_hh, b_h)
       IN  /\ matmuls' = StepMatMuls(X, state, W_xh, W_hh)
           /\ IF new = ShapeError
              THEN /\ pc' = "raised"
                   /\ err' = "ShapeMismatch"
                   /\ ret' = <<outputs, state>>
                   /\ UNCHANGED <<state, outputs, t>>
              ELSE /\ state' = new
                   /\ outputs' = Appended(outputs, state, new)
                   /\ t' = t + 1
                   /\ UNCHANGED <<pc, err, ret>>
    /\ UNCHANGED <<fields, updates, inputs, init_state, before, rngs, called,
                   elsewhere>>

\* LoopStep that keeps the new state's first row in the bias parameter.
LoopStep_store ==
    /\ pc = "loop"
    /\ t < Len(inputs)
    /\ LET X == StepInput(inputs, t)
           new == RecurrentCellStep(X, state, W_xh, W_hh, b_h)
       IN  /\ matmuls' = StepMatMuls(X, state, W_xh, W_hh)
           /\ IF new = ShapeError
              THEN /\ pc' = "raised"
                   /\ err' = "ShapeMismatch"
                   /\ UNCHANGED <<state, outputs, t, b_h>>
              ELSE /\ state' = new
                   /\ outputs' = Appended(outputs, state, new)
                   /\ t' = t + 1
                   /\ b_h' = Tensor(b_h.shape,
                                    [idx \in 1..Len(b_h.v) |-> new.v[idx]])
                   /\ UNCHANGED <<pc, err>>
    /\ UNCHANGED <<W_xh, W_hh, num_hiddens, updates, inputs, init_state, ret,
                   before, rngs, called, elsewhere>>

\* LoopStep that draws a key from the rngs stream and perturbs the bias
\* with it, as a recurrent noise layer would.
LoopStep_noise ==
    /\ pc = "loop"
    /\ t < Len(inputs)
    /\ LET X == StepInput(inputs, t)
           noisy == Tensor(b_h.shape,
                           [idx \in 1..Len(b_h.v) |-> b_h.v[idx] + (rngs % 3)])
           new == RecurrentCellStep(X, state, W_xh, W_hh, noisy)
       IN  /\ matmuls' = StepMatMuls(X, state, W_xh, W_hh)
           /\ IF new = ShapeError
              THEN /\ pc' = "raised"
                   /\ err' = "ShapeMismatch"
                   /\ UNCHANGED <<state, outputs, t, rngs>>
              ELSE /\ state' = new
                   /\ outputs' = Appended(outputs, state, new)
                   /\ t' = t + 1
                   /\ rngs' = rngs + 1
                   /\ UNCHANGED <<pc, err>>
    /\ UNCHANGED <<fields, updates, inputs, init_state, ret, before, called,
                   elsewhere>>

\* Lines 117-121: one iteration of the loop over inputs; an exception of an
\* array operation leaves the call, nothing is returned.
LoopStep ==
    /\ pc = "loop"
    /\ t < Len(inputs)
    /\ LET X == StepInput(inputs, t)
           new == RecurrentCellStep(X, state, W_xh, W_hh, b_h)
       IN  /\ matmuls' = StepMatMuls(X, state, W_xh, W_hh)
           /\ IF new = ShapeError
              THEN /\ pc' = "raised"
                   /\ err' = "ShapeMismatch"
                   /\ UNCHANGED <<state, outputs, t>>
              ELSE /\ state' = new
                   /\ outputs' = Appended(outputs, state, new)
                   /\ t' = t + 1
                   /\ UNCHANGED <<pc, err>>
    /\ UNCHANGED <<fields, updates, inputs, init_state, ret, before, rngs,
                   called, elsewhere>>

\* Line 122: return outputs, state.
Return ==
    /\ pc = "loop"
    /\ t = Len(inputs)
    /\ ret' = Returned(outputs, state)
    /\ pc' = "returned"
    /\ UNCHANGED <<fields, updates, inputs, init_state, state, outputs, t,
                   err, matmuls, before, rngs, called, elsewhere>>

\* The caller takes the result or the exception; the frame is gone.
Finish ==
    /\ pc \in {"returned", "raised"}
    /\ pc' = "idle"
    /\ inputs' = <<>>
    /\ init_state' = NoneArg
    /\ state' = None
    /\ outputs' = <<>>
    /\ t' = 0
    /\ ret' = <<>>
    /\ err' = ""
    /\ matmuls' = 0
    /\ before' = <<>>
    /\ called' = TRUE
    /\ UNCHANGED <<fields, updates, rngs, elsewhere>>

\* An optimizer step of the training process outside this class: it rewrites
\* the three nnx.Param values between forward passes.
TrainUpdate ==
    /\ pc = "idle"
    /\ updates < MaxUpdates
    /\ W_xh' = Tensor(W_xh.shape,
                      [idx \in 1..Len(W_xh.v) |-> W_xh.v[idx] - ((idx % 3) - 1)])
    /\ W_hh' = Tensor(W_hh.shape,
                      [idx \in 1..Len(W_hh.v) |-> W_hh.v[idx] - (((idx + 1) % 3) - 1)])
    /\ b_h' = Tensor(b_h.shape,
                     [idx \in 1..Len(b_h.v) |-> b_h.v[idx] - idx])
    /\ updates' = updates + 1
    /\ UNCHANGED <<num_hiddens, pc, frame, rngs, called, elsewhere>>

Next ==
    \/ Call
    \/ LoopStep
    \/ Return
    \/ Finish
    \/ TrainUpdate

Spec == Init /\ [][Next]_vars

-----------------------------------------------------------------------------
\* Interleaved calls: several callers invoke the same RNNScratch instance and
\* their loop iterations interleave step by step.  Every caller has a frame of
\* its own with the locals of __call__; the parameters are the instance's.

Callers == {1, 2}

IdleFrame ==
    [pc |-> "idle", inputs |-> <<>>, init_state |-> NoneArg, state |-> None,
     outputs |-> <<>>, t |-> 0, ret |-> <<>>]

\* The calls the callers make: regular sequences of the two longest lengths,
\* with no state, a state of the inputs' batch size, or a state whose hidden
\* size is not the instance's.
ParCalls(ni, nh) ==
    { <<Regular(b, ni, T), arg>> :
        <<b, T, arg>> \in
            UNION { UNION { { <<b, T, NoneArg>>,
                              <<b, T, TupleArg(<<Ramp(<<b, nh>>, 1)>>)>>,
                              <<b, T, TupleArg(<<Ramp(<<b, nh + 1>>, 2)>>)>> } :
                            T \in {MaxSteps - 1, MaxSteps} } : b \in Dims } }

\* Lines 114-116 in the frame of one caller.
ParEntered(inp, arg) ==
    [pc |-> IF EntryState(arg) = UnpackError THEN "raised" ELSE "loop",
     inputs |-> inp, init_state |-> arg,
     state |-> IF EntryState(arg) = UnpackError THEN None ELSE EntryState(arg),
     outputs |-> <<>>, t |-> 0, ret |-> <<>>]

\* Lines 117-121 in the frame f, the previous state being prev.
ParStepped(f, prev) ==
    LET X == StepInput(f.inputs, f.t)
        new == RecurrentCellStep(X, prev, W_xh, W_hh, b_h)
    IN  IF new = ShapeError
        THEN [f EXCEPT !.pc = "raised"]
        ELSE [f EXCEPT !.state = new,
                       !.outputs = Appended(f.outputs, prev, new),
                       !.t = f.t + 1]

ParEnter(c) ==
    /\ par[c].pc = "idle"
    /\ \E call \in ParCalls(num_inputs, num_hiddens) :
          par' = [par EXCEPT ![c] = ParEntered(call[1], call[2])]
    /\ UNCHANGED <<rnn_vars, notebooks>>

\* ParLoopStep with the hidden state kept in a slot the callers share: the
\* iteration continues from the state the latest other caller left there.
ParLoopStep_shared(c) ==
    /\ par[c].pc = "loop"
    /\ par[c].t < Len(par[c].inputs)
    /\ LET others == {d \in Callers \ {c} : par[d].pc = "loop" /\ par[d].t > 0}
           prev == IF others = {} THEN par[c].state
                   ELSE par[CHOOSE d \in others : TRUE].state
       IN  par' = [par EXCEPT ![c] = ParStepped(par[c], prev)]
    /\ UNCHANGED <<rnn_vars, notebooks>>

\* One iteration of caller c's loop: it continues from c's own local state.
ParLoopStep(c) ==
    /\ par[c].pc = "loop"
    /\ par[c].t < Len(par[c].inputs)
    /\ par' = [par EXCEPT ![c] = ParStepped(par[c], par[c].state)]
    /\ UNCHANGED <<rnn_vars, notebooks>>

ParReturn(c) ==
    /\ par[c].pc = "loop"
    /\ par[c].t = Len(par[c].inputs)
    /\ par' = [par EXCEPT ![c].pc = "returned",
                          ![c].ret = Returned(par[c].outputs, par[c].state)]
    /\ UNCHANGED <<rnn_vars, notebooks>>

ParFinish(c) ==
    /\ par[c].pc \in {"returned", "raised"}
    /\ par' = [par EXCEPT ![c] = IdleFrame]
    /\ UNCHANGED <<rnn_vars, notebooks>>

InitPar ==
    /\ RNNScratch_init
    /\ NoCall
    /\ par = [c \in Callers |-> IdleFrame]
    /\ OtherNotebooksAbsent

NextPar ==
    \/ \E c \in Callers : ParEnter(c)
    \/ \E c \in Callers : ParLoopStep(c)
    \/ \E c \in Callers : ParReturn(c)
    \/ \E c \in Callers : ParFinish(c)

SpecPar == InitPar /\ [][NextPar]_vars

-----------------------------------------------------------------------------
\* The worked example of the notebook: an instance with 2 inputs and 3 hidden
\* units is called on 2 steps of all-ones minibatches of 2 examples, without
\* an initial state.

MaxKey == 2

\* Line 159: batch_size, num_inputs, num_hiddens, num_steps = 2, 2, 3, 2.
Scenario ==
    [batch_size |-> 2, num_inputs |-> 2, num_hiddens |-> 3, num_steps |-> 2]

\* Line 170: X = jnp.ones((num_steps, batch_size, num_inputs)), iterated
\* over its first axis.
Ones(shape) == Tensor(shape, [idx \in 1..(shape[1] * shape[2]) |-> Scale])

ScenarioX ==
    [k \in 1..Scenario.num_steps |->
        Ones(<<Scenario.batch_size, Scenario.num_inputs>>)]

\* Line 160: rnn = RNNScratch(num_inputs, num_hiddens, rngs), for the keys
\* that the seed of rngs may give.
InitScenario ==
    /\ \E k1 \in 0..MaxKey, k2 \in 0..MaxKey :
          /\ W_xh = HeNormal(k1, <<Scenario.num_inputs, Scenario.num_hiddens>>)
          /\ W_hh = HeNormal(k2, <<Scenario.num_hiddens, Scenario.num_hiddens>>)
          /\ b_h = Zeros(<<Scenario.num_hiddens>>)
          /\ num_hiddens = Scenario.num_hiddens
    /\ rngs = 3
    /\ updates = 0
    /\ NoCall
    /\ NothingElse

\* Line 171: outputs, state = rnn(X).
CallScenario ==
    /\ pc = "idle"
    /\ Enter(ScenarioX, NoneArg)

NextScenario ==
    \/ CallScenario
    \/ LoopStep
    \/ Return
    \/ Finish
    \/ TrainUpdate

SpecScenario == InitScenario /\ [][NextScenario]_vars

-----------------------------------------------------------------------------
\* RNNLMScratch.one_hot: the one-hot encoding of a minibatch of token indices.

MaxVocab == 3

\* X.T of a matrix.
Transpose(A) ==
    Tensor(<<A.shape[2], A.shape[1]>>,
           [idx \in 1..Len(A.v) |->
               A.v[((idx - 1) % A.shape[1]) * A.shape[2]
                   + ((idx - 1) \div A.shape[1]) + 1]])

\* jax.nn.one_hot(A, n): a new last axis of length n, whose entry j is 1.0
\* where the index equals j and 0.0 elsewhere.
OneHot(A, n) ==
    Tensor(A.shape \o <<n>>,
           [idx \in 1..(Len(A.v) * n) |->
               IF A.v[((idx - 1) \div n) + 1] = (idx - 1) % n
               THEN Scale ELSE 0])

\* one_hot without the transposition of X.
one_hot_untransposed(X) == OneHot(X, vocab_size)

\* Lines 304-306: return jax.nn.one_hot(X.T, self.vocab_size).
one_hot(X) == OneHot(Transpose(X), vocab_size)

\* A minibatch of shape (batch_size, num_steps) of indices below vs.
TokenBatch(bs, ns, vs, seed, stride) ==
    Tensor(<<bs, ns>>,
           [idx \in 1..(bs * ns) |->
               (seed + stride * idx + ((idx - 1) \div ns)) % vs])

TokenBatches(vs) ==
    { TokenBatch(bs, ns, vs, seed, stride) :
        bs \in Dims, ns \in 1..MaxSteps,
        seed \in 0..MaxKey, stride \in 0..MaxKey }

OneHotCall ==
    /\ lm_pc = "idle"
    /\ \E X \in TokenBatches(vocab_size) : tokens' = X
    /\ lm_pc' = "called"
    /\ UNCHANGED <<vocab_size, embs, lm_rest>>

OneHotReturn ==
    /\ lm_pc = "called"
    /\ embs' = one_hot(tokens)
    /\ lm_pc' = "returned"
    /\ UNCHANGED <<vocab_size, tokens, lm_rest>>

OneHotFinish ==
    /\ lm_pc = "returned"
    /\ lm_pc' = "idle"
    /\ tokens' = None
    /\ embs' = None
    /\ UNCHANGED <<vocab_size, lm_rest>>

\* Lines 299-302: RNNLMScratch(rnn, vocab_size, rngs).
InitLM ==
    /\ vocab_size \in 1..MaxVocab
    /\ lm_pc = "idle"
    /\ tokens = None
    /\ embs = None
    /\ RNNAbsent
    /\ NetAbsent
    /\ RegAbsent
    /\ LeNetAbsent
    /\ TrainAbsent

NextLM ==
    \/ OneHotCall
    \/ OneHotReturn
    \/ OneHotFinish

SpecLM == InitLM /\ [][NextLM]_vars

-----------------------------------------------------------------------------
\* The Net with tied parameters (ch06, parameters notebook): three Linear
\* layers as attributes, the middle one applied twice in a forward pass.

MaxNetUpdates == 2

\* nnx.relu, elementwise.
Relu(A) == Tensor(A.shape, [idx \in 1..Len(A.v) |-> Max(A.v[idx], 0)])

\* nnx.Linear(n_in, n_out, rngs=rngs): a kernel drawn with the next key of
\* rngs and a zero bias.
Linear_init(key, n_in, n_out) ==
    [kernel |-> Tensor(<<n_in, n_out>>,
                       [idx \in 1..(n_in * n_out) |->
                           ((3 * idx + 5 * key + (idx \div 3)) % 7) - 2]),
     bias |-> Zeros(<<n_out>>)]

\* nnx.Linear.__call__: x @ kernel + bias.
Linear(p, x) == Add(MatMul(x, p.kernel), p.bias)

\* Lines 378-381: Net.__init__(n_inputs, rngs).
Net_init(n_inputs) ==
    [net1 |-> Linear_init(0, n_inputs, 8),
     shared |-> Linear_init(1, 8, 8),
     net2 |-> Linear_init(2, 8, 1)]

\* Lines 383-387: the attribute each line of Net.__call__ applies, and
\* whether nnx.relu follows.
Net_call ==
    << [layer |-> "net1", relu |-> TRUE],
       [layer |-> "shared", relu |-> TRUE],
       [layer |-> "shared", relu |-> TRUE],
       [layer |-> "net2", relu |-> FALSE] >>

\* Line 432: graphdef, params = nnx.split(net, nnx.Param); the State has
\* one top-level entry for every attribute that holds parameters.
Split(module) ==
    [graphdef |-> DOMAIN module,
     params |-> [name \in DOMAIN module |-> module[name]]]

\* Line 121: x = jax.random.uniform(key, (2, 4)), values in [0, 1).
NetInputs ==
    { Tensor(<<2, 4>>, [idx \in 1..8 |-> (3 * idx + seed) % Scale]) :
        seed \in 0..MaxKey }

\* Line 409: net(x).
NetCall ==
    /\ net_in = None
    /\ \E x \in NetInputs :
          /\ net_in' = x
          /\ net_x' = x
    /\ net_pc' = 0
    /\ net_reads' = <<>>
    /\ UNCHANGED <<net, net_updates, net_rest>>

\* NetApply whose second application of shared uses a copy of the
\* parameters made at construction: equal then, but not the same tensors.
NetApply_copy ==
    /\ net_in # None
    /\ net_pc < Len(Net_call)
    /\ LET line == Net_call[net_pc + 1]
           p == IF net_pc + 1 = 3 THEN Net_init(4)[line.layer]
                ELSE net[line.layer]
           y == Linear(p, net_x)
       IN  /\ net_x' = IF line.relu THEN Relu(y) ELSE y
           /\ net_reads' = Append(net_reads, [layer |-> line.layer, params |-> p])
    /\ net_pc' = net_pc + 1
    /\ UNCHANGED <<net, net_updates, net_in, net_rest>>

\* One line of Net.__call__: the layer reads its parameters as they are now.
NetApply ==
    /\ net_in # None
    /\ net_pc < Len(Net_call)
    /\ LET line == Net_call[net_pc + 1]
           p == net[line.layer]
           y == Linear(p, net_x)
       IN  /\ net_x' = IF line.relu THEN Relu(y) ELSE y
           /\ net_reads' = Append(net_reads, [layer |-> line.layer, params |-> p])
    /\ net_pc' = net_pc + 1
    /\ UNCHANGED <<net, net_updates, net_in, net_rest>>

\* The caller takes the result.
NetFinish ==
    /\ net_pc = Len(Net_call)
    /\ net_pc' = 0
    /\ net_in' = None
    /\ net_x' = None
    /\ net_reads' = <<>>
    /\ UNCHANGED <<net, net_updates, net_rest>>

\* Lines 463-468: one of the parameters is changed, between forward passes.
NetAssign ==
    /\ net_in = None
    /\ net_updates < MaxNetUpdates
    /\ \E name \in DOMAIN net :
          net' = [net EXCEPT
                    ![name].kernel =
                        Tensor(@.shape,
                               [idx \in 1..Len(@.v) |-> @.v[idx] + (idx % 2)])]
    /\ net_updates' = net_updates + 1
    /\ UNCHANGED <<net_pc, net_in, net_x, net_reads, net_rest>>

\* Line 409: net = Net(4, rngs=nnx.Rngs(params=0)).
InitNet ==
    /\ net = Net_init(4)
    /\ net_updates = 0
    /\ net_pc = 0
    /\ net_in = None
    /\ net_x = None
    /\ net_reads = <<>>
    /\ RNNAbsent
    /\ LMAbsent
    /\ RegAbsent
    /\ LeNetAbsent
    /\ TrainAbsent

NextNet ==
    \/ NetCall
    \/ NetApply
    \/ NetFinish
    \/ NetAssign

SpecNet == InitNet /\ [][NextNet]_vars

-----------------------------------------------------------------------------
\* The synthetic regression data: gen_reg_data(w, b, seed, noise, n).  The
\* rows of X are whole numbers; w, b, the noise and the labels count tenths.

MaxRows == 2

\* The values a feature and a noise term may take.
FeatureVals == -1..1
NoiseVals == -1..1

RECURSIVE Dot(_, _)
\* One entry of jnp.matmul(X, jnp.reshape(w, (-1, 1))): the row times w.
Dot(row, w) ==
    IF row = <<>> THEN 0
    ELSE Head(row) * Head(w) + Dot(Tail(row), Tail(w))

\* Line 101: one row of jnp.matmul(X, reshape(w)) + b + noise.
Label(row, w, b, eps) == Dot(row, w) + b + eps

\* Lines 96-101 for the call of line 133: X and the noise are sampled, the
\* labels computed from them.
GenRegData ==
    /\ features = <<>>
    /\ \E n \in 1..MaxRows :
          \E X \in [1..n -> [1..Len(true_w) -> FeatureVals]],
             eps \in [1..n -> NoiseVals] :
              /\ features' = X
              /\ noises' = eps
              /\ labels' = [i \in 1..n |-> Label(X[i], true_w, true_b, eps[i])]
    /\ UNCHANGED <<true_w, true_b, reg_rest>>

\* The data is dropped; the next call samples anew.
DropRegData ==
    /\ features # <<>>
    /\ features' = <<>>
    /\ noises' = <<>>
    /\ labels' = <<>>
    /\ UNCHANGED <<true_w, true_b, reg_rest>>

\* Line 133: data = gen_reg_data(w=jnp.array([2, 3.4]), b=4.2, seed=714).
InitReg ==
    /\ true_w = <<20, 34>>
    /\ true_b = 42
    /\ features = <<>>
    /\ labels = <<>>
    /\ noises = <<>>
    /\ RNNAbsent
    /\ LMAbsent
    /\ NetAbsent
    /\ LeNetAbsent
    /\ TrainAbsent

NextReg ==
    \/ GenRegData
    \/ DropRegData

SpecReg == InitReg /\ [][NextReg]_vars

-----------------------------------------------------------------------------
\* LeNet (ch07): the shapes of a forward pass.  An activation is modelled by
\* its shape (batch, height, width, channels), or (batch, features) once
\* flattened; nnx.sigmoid keeps the shape.

MaxBatch == 2

\* The shape of nothing: an operation that raised.
NoShape == <<0>>

\* Lines 156-167: LeNet.__init__(in_channels, num_classes, rngs).
LeNet_init(in_channels, num_classes) ==
    [conv1 |-> [in_features |-> in_channels, out_features |-> 6,
                kernel_size |-> <<5, 5>>, padding |-> "SAME"],
     conv2 |-> [in_features |-> 6, out_features |-> 16,
                kernel_size |-> <<5, 5>>, padding |-> "VALID"],
     avg_pool |-> [window_shape |-> <<2, 2>>, strides |-> <<2, 2>>],
     linear1 |-> [in_features |-> 400, out_features |-> 120],
     linear2 |-> [in_features |-> 120, out_features |-> 84],
     linear3 |-> [in_features |-> 84, out_features |-> num_classes]]

\* Lines 169-175: the operations of LeNet.__call__ in evaluation order.
LeNet_call ==
    <<"conv1", "avg_pool", "conv2", "avg_pool", "reshape",
      "linear1", "linear2", "linear3">>

\* nnx.Conv that pads as 'VALID' whatever its padding says.
ConvShape_valid(conv, shape) ==
    IF Len(shape) # 4 \/ shape[4] # conv.in_features THEN NoShape
    ELSE IF shape[2] < conv.kernel_size[1] \/ shape[3] < conv.kernel_size[2]
         THEN NoShape
         ELSE <<shape[1], shape[2] - conv.kernel_size[1] + 1,
                shape[3] - conv.kernel_size[2] + 1, conv.out_features>>

\* nnx.Conv with stride 1: 'SAME' keeps height and width, 'VALID' keeps the
\* positions where the kernel fits; the channels must be in_features.
ConvShape(conv, shape) ==
    IF Len(shape) # 4 \/ shape[4] # conv.in_features THEN NoShape
    ELSE IF conv.padding = "SAME"
         THEN <<shape[1], shape[2], shape[3], conv.out_features>>
         ELSE IF shape[2] < conv.kernel_size[1]
                 \/ shape[3] < conv.kernel_size[2]
              THEN NoShape
              ELSE <<shape[1], shape[2] - conv.kernel_size[1] + 1,
                     shape[3] - conv.kernel_size[2] + 1, conv.out_features>>

\* nnx.avg_pool(x, window_shape, strides), padding 'VALID'.
PoolShape(pool, shape) ==
    IF Len(shape) # 4 THEN NoShape
    ELSE IF shape[2] < pool.window_shape[1] \/ shape[3] < pool.window_shape[2]
         THEN NoShape
         ELSE <<shape[1],
                ((shape[2] - pool.window_shape[1]) \div pool.strides[1]) + 1,
                ((shape[3] - pool.window_shape[2]) \div pool.strides[2]) + 1,
                shape[4]>>

\* x.reshape(x.shape[0], -1).
FlattenShape(shape) ==
    IF Len(shape) # 4 THEN NoShape
    ELSE <<shape[1], shape[2] * shape[3] * shape[4]>>

\* nnx.Linear: the last dimension must be in_features.
LinearShape(linear, shape) ==
    IF Len(shape) # 2 \/ shape[2] # linear.in_features THEN NoShape
    ELSE <<shape[1], linear.out_features>>

\* The shape after the operation `name` of the model on an activation.
ApplyShape(layers, name, shape) ==
    IF name \in {"conv1", "conv2"} THEN ConvShape(layers[name], shape)
    ELSE IF name = "avg_pool" THEN PoolShape(layers.avg_pool, shape)
    ELSE IF name = "reshape" THEN FlattenShape(shape)
    ELSE LinearShape(layers[name], shape)

\* The number of spatial positions of an activation.
Positions(shape) == shape[2] * shape[3]

\* Lines 382-383: model(x) for an image batch x.
LeNetCall ==
    /\ lenet_in = <<>>
    /\ \E B \in 1..MaxBatch, side \in {28, 32}, C \in {1, 3} :
          /\ lenet_in' = <<B, side, side, C>>
          /\ lenet_x' = <<B, side, side, C>>
    /\ lenet_pc' = 0
    /\ UNCHANGED <<lenet, lenet_rest>>

\* The next operation of __call__; an operation that raises ends the call.
LeNetApply ==
    /\ lenet_in # <<>>
    /\ lenet_x # NoShape
    /\ lenet_pc < Len(LeNet_call)
    /\ lenet_x' = ApplyShape(lenet, LeNet_call[lenet_pc + 1], lenet_x)
    /\ lenet_pc' = lenet_pc + 1
    /\ UNCHANGED <<lenet, lenet_in, lenet_rest>>

\* The caller takes the result or the exception.
LeNetFinish ==
    /\ lenet_in # <<>>
    /\ lenet_x = NoShape \/ lenet_pc = Len(LeNet_call)
    /\ lenet_in' = <<>>
    /\ lenet_x' = <<>>
    /\ lenet_pc' = 0
    /\ UNCHANGED <<lenet, lenet_rest>>

\* Line 235: model = LeNet(in_channels=1, num_classes=10, rngs=nnx.Rngs(0)),
\* and other choices of the two arguments.
InitLeNet ==
    /\ \E in_channels \in {1, 3}, num_classes \in {2, 10} :
          lenet = LeNet_init(in_channels, num_classes)
    /\ lenet_pc = 0
    /\ lenet_in = <<>>
    /\ lenet_x = <<>>
    /\ RNNAbsent
    /\ LMAbsent
    /\ NetAbsent
    /\ RegAbsent
    /\ TrainAbsent

NextLeNet ==
    \/ LeNetCall
    \/ LeNetApply
    \/ LeNetFinish

SpecLeNet == InitLeNet /\ [][NextLeNet]_vars

-----------------------------------------------------------------------------
\* The training data pipeline and the training loop of the LeNet notebook.

MaxTrain == 5
MaxEpoch == 2
MaxBatchSize == 3
MaxTest == 2
MaxEvalEvery == 2

\* Lines 460, 489-490, 630: x_train has 60000 examples; n_epoch = 10;
\* batch_size = 256; eval_every = 250.  Line 414: the test split that
\* fashion_mnist.load_data() returns has 10000 examples.
NotebookSettings ==
    [n_train |-> 60000, n_epoch |-> 10, batch_size |-> 256,
     n_test |-> 10000, eval_every |-> 250]

\* The settings explored: those of the notebook, and small ones.
Settings ==
    {NotebookSettings}
    \cup [n_train : 1..MaxTrain, n_epoch : 1..MaxEpoch,
          batch_size : 1..MaxBatchSize, n_test : 1..MaxTest,
          eval_every : 1..MaxEvalEvery]

\* Line 491: train_data.repeat(n_epoch) holds every example n_epoch times;
\* shuffle changes the order only.
Repeated(n, epochs) == n * epochs

\* batch without drop_remainder: the examples left over form a last batch.
BatchTake_keepRemainder(left, size) == IF left >= size THEN size ELSE left

\* Line 492: batch(batch_size, drop_remainder=True): the size of the next
\* batch when `left` examples remain, 0 when the dataset ends.
BatchTake(left, size) == IF left >= size THEN size ELSE 0

\* Lines 542-546 (loss_fn): the loss of a batch under the parameters, and
\* the number of its examples the logits classify correctly.
Loss(theta, kind, idx) == (theta + 3 * idx + (IF kind = "test" THEN 1 ELSE 0)) % 5
Correct(theta, kind, idx, size) == (theta + idx) % (size + 1)

\* Lines 587-588, 590: the gradient step on the parameters for a batch.
Stepped(theta, idx) == (2 * theta + idx + 1) % 7

\* Lines 571-574: a fresh nnx.MultiMetric, also what metrics.reset() leaves:
\* Accuracy and Average('loss') each keep a total and a count.  `over`
\* tells which batches the totals cover: how many training and test
\* batches, and the first and last training step among them.
EmptyMetrics ==
    [accuracy |-> [total |-> 0, count |-> 0],
     loss |-> [total |-> 0, count |-> 0],
     over |-> [n_train |-> 0, n_test |-> 0, first |-> -1, last |-> -1]]

\* metrics.update(loss=loss, logits=logits, labels=batch[1]) for a batch.
Updated(m, theta, kind, idx, size) ==
    [accuracy |-> [total |-> m.accuracy.total + Correct(theta, kind, idx, size),
                   count |-> m.accuracy.count + size],
     loss |-> [total |-> m.loss.total + Loss(theta, kind, idx),
               count |-> m.loss.count + 1],
     over |-> IF kind = "train"
              THEN [m.over EXCEPT !.n_train = @ + 1,
                                  !.first = IF @ = -1 THEN idx ELSE @,
                                  !.last = idx]
              ELSE [m.over EXCEPT !.n_test = @ + 1]]

\* metrics.compute(): each metric as its total over its count.
Compute(m) ==
    [accuracy |-> [value |-> <<m.accuracy.total, m.accuracy.count>>,
                   over |-> m.over],
     loss |-> [value |-> <<m.loss.total, m.loss.count>>, over |-> m.over]]

\* Lines 643-644 and 650-651 with the loop over the items cut short: only
\* the loss is recorded.
Recorded_lossOnly(history, prefix, values) ==
    IF prefix = "train"
    THEN [history EXCEPT !.train_loss = Append(@, values.loss)]
    ELSE [history EXCEPT !.test_loss = Append(@, values.loss)]

\* Lines 643-644 and 650-651: every computed value is appended to the list
\* named after the prefix and the metric.
Recorded(history, prefix, values) ==
    IF prefix = "train"
    THEN [history EXCEPT !.train_accuracy = Append(@, values.accuracy),
                         !.train_loss = Append(@, values.loss)]
    ELSE [history EXCEPT !.test_accuracy = Append(@, values.accuracy),
                         !.test_loss = Append(@, values.loss)]

\* The condition of line 642 without its first conjunct.
EvalDue_multiple(s, every) == s % every = 0

\* Line 642: step > 0 and (step % eval_every == 0).
EvalDue(s, every) == s > 0 /\ s % every = 0

\* Line 639: the iterator yields the next batch and enumerate numbers it.
NextBatch ==
    /\ train_pc = "iter"
    /\ BatchTake(remaining, batch_size) > 0
    /\ batch' = BatchTake(remaining, batch_size)
    /\ remaining' = remaining - BatchTake(remaining, batch_size)
    /\ step' = yielded
    /\ yielded' = yielded + 1
    /\ train_pc' = "step"
    /\ UNCHANGED <<settings, steps_run, model, opt_count, evaluation,
                   train_rest>>

\* Lines 640-642: train_step(model, optimizer, metrics, batch), which
\* updates the metrics with the loss under the current parameters and then
\* the parameters (lines 588-590), and the test of line 642.
TrainStep ==
    /\ train_pc = "step"
    /\ metrics' = Updated(metrics, model, "train", step, batch)
    /\ model' = Stepped(model, step)
    /\ opt_count' = opt_count + 1
    /\ steps_run' = steps_run + 1
    /\ train_pc' = IF EvalDue(step, eval_every) THEN "record_train" ELSE "iter"
    /\ UNCHANGED <<settings, remaining, yielded, batch, step, metrics_history,
                   test_remaining, test_batches, eval_log, train_rest>>

\* RecordTrain without the metrics.reset() of line 645.
RecordTrain_noReset ==
    /\ train_pc = "record_train"
    /\ metrics_history' = Recorded(metrics_history, "train", Compute(metrics))
    /\ test_remaining' = n_test
    /\ test_batches' = 0
    /\ eval_log' = Append(eval_log, step)
    /\ train_pc' = "eval"
    /\ UNCHANGED <<settings, remaining, yielded, batch, step, steps_run, model,
                   opt_count, metrics, train_rest>>

\* Lines 643-647: the train metrics are recorded, the accumulator is reset
\* and a new iterator over test_data is made.
RecordTrain ==
    /\ train_pc = "record_train"
    /\ metrics_history' = Recorded(metrics_history, "train", Compute(metrics))
    /\ metrics' = EmptyMetrics
    /\ test_remaining' = n_test
    /\ test_batches' = 0
    /\ eval_log' = Append(eval_log, step)
    /\ train_pc' = "eval"
    /\ UNCHANGED <<settings, remaining, yielded, batch, step, steps_run, model,
                   opt_count, train_rest>>

\* EvalStep that takes a gradient step as train_step does.
EvalStep_training ==
    /\ train_pc = "eval"
    /\ BatchTake(test_remaining, batch_size) > 0
    /\ metrics' = Updated(metrics, model, "test", test_batches,
                          BatchTake(test_remaining, batch_size))
    /\ model' = Stepped(model, test_batches)
    /\ opt_count' = opt_count + 1
    /\ test_remaining' = test_remaining - BatchTake(test_remaining, batch_size)
    /\ test_batches' = test_batches + 1
    /\ UNCHANGED <<settings, train_pc, remaining, yielded, batch, step,
                   steps_run, metrics_history, eval_log, train_rest>>

\* Lines 647-648 (601-603): eval_step(model, metrics, test_batch) for the
\* next batch of test_data (lines 536-537).
EvalStep ==
    /\ train_pc = "eval"
    /\ BatchTake(test_remaining, batch_size) > 0
    /\ metrics' = Updated(metrics, model, "test", test_batches,
                          BatchTake(test_remaining, batch_size))
    /\ test_remaining' = test_remaining - BatchTake(test_remaining, batch_size)
    /\ test_batches' = test_batches + 1
    /\ UNCHANGED <<settings, train_pc, remaining, yielded, batch, step,
                   steps_run, model, opt_count, metrics_history, eval_log,
                   train_rest>>

\* RecordTest without the metrics.reset() of line 652.
RecordTest_noReset ==
    /\ train_pc = "eval"
    /\ BatchTake(test_remaining, batch_size) = 0
    /\ metrics_history' = Recorded(metrics_history, "test", Compute(metrics))
    /\ test_remaining' = 0
    /\ train_pc' = "iter"
    /\ UNCHANGED <<settings, remaining, yielded, batch, step, steps_run, model,
                   opt_count, metrics, test_batches, eval_log, train_rest>>

\* Lines 647, 650-652: test_data is exhausted, the test metrics are
\* recorded, the accumulator is reset and the loop goes on.
RecordTest ==
    /\ train_pc = "eval"
    /\ BatchTake(test_remaining, batch_size) = 0
    /\ metrics_history' = Recorded(metrics_history, "test", Compute(metrics))
    /\ metrics' = EmptyMetrics
    /\ test_remaining' = 0
    /\ train_pc' = "iter"
    /\ UNCHANGED <<settings, remaining, yielded, batch, step, steps_run, model,
                   opt_count, test_batches, eval_log, train_rest>>

\* Line 639: the iterator is exhausted, what is left over is dropped, and
\* the loop ends.
Exhausted ==
    /\ train_pc = "iter"
    /\ BatchTake(remaining, batch_size) = 0
    /\ remaining' = 0
    /\ batch' = 0
    /\ train_pc' = "done"
    /\ UNCHANGED <<settings, yielded, step, steps_run, model, opt_count,
                   evaluation, train_rest>>

\* Lines 489-492, 571-574, 630-637: the pipeline, the model, the metrics
\* and the empty history are built; the loop has not started.
InitTrain ==
    /\ \E cfg \in Settings :
          /\ n_train = cfg.n_train
          /\ n_epoch = cfg.n_epoch
          /\ batch_size = cfg.batch_size
          /\ n_test = cfg.n_test
          /\ eval_every = cfg.eval_every
          /\ remaining = Repeated(cfg.n_train, cfg.n_epoch)
    /\ train_pc = "iter"
    /\ yielded = 0
    /\ batch = 0
    /\ step = 0
    /\ steps_run = 0
    /\ model = 0
    /\ opt_count = 0
    /\ metrics = EmptyMetrics
    /\ metrics_history = [train_loss |-> <<>>, train_accuracy |-> <<>>,
                          test_loss |-> <<>>, test_accuracy |-> <<>>]
    /\ test_remaining = 0
    /\ test_batches = 0
    /\ eval_log = <<>>
    /\ RNNAbsent
    /\ LMAbsent
    /\ NetAbsent
    /\ RegAbsent
    /\ LeNetAbsent

NextTrain ==
    \/ NextBatch
    \/ TrainStep
    \/ RecordTrain
    \/ EvalStep
    \/ RecordTest
    \/ Exhausted

SpecTrain == InitTrain /\ [][NextTrain]_vars

\* The loop is a sequential program: it takes its next step whenever it has
\* one.
SpecTrainLive == SpecTrain /\ WF_vars(NextTrain)

-----------------------------------------------------------------------------
\* Properties

\* The hidden state the caller supplied: the element of the 1-tuple, or none.
InitialHidden ==
    IF init_state.kind = "tuple" /\ Len(init_state.items) = 1
    THEN init_state.items[1]
    ELSE None

\* The previous state of step k of the call in progress, by the contract.
Prev(k) == IF k = 1 THEN InitialHidden ELSE outputs[k - 1]

\* The previous state of step k as the loop holds it.
PrevLocal(k) == IF k = 1 THEN EntryState(init_state) ELSE outputs[k - 1]

\* The batch size of the call in progress, when its first step is a matrix.
Batch == inputs[1].shape[1]

\* C1: when a call on T >= 1 steps returns, with the initial state absent or
\* supplied, the returned final state is the last element of the returned
\* output list.
FinalStateIsLastOutput ==
    (pc = "returned" /\ Len(inputs) >= 1) =>
        /\ Len(ret[1]) >= 1
        /\ ret[2] = ret[1][Len(ret[1])]

FinalStateIsLastOutput_witness ==
    /\ pc = "returned"
    /\ Len(inputs) >= 2
    /\ init_state.kind = "tuple"

\* C2: the outputs are produced in step order: after t steps the list holds
\* exactly the states of steps 1..t, output i being the step function of
\* input i and output i-1 (the initial state, or none, for i = 1), and a call
\* that returns hands back exactly T of them.
OutputsInStepOrder ==
    (pc \in {"loop", "returned"} /\ init_state.kind # "array") =>
        /\ Len(outputs) = t
        /\ t <= Len(inputs)
        /\ \A k \in 1..Len(outputs) :
              /\ k <= Len(inputs)
              /\ outputs[k] = RecurrentCellStep(inputs[k], Prev(k),
                                                W_xh, W_hh, b_h)
        /\ pc = "returned" =>
              /\ ret[1] = outputs
              /\ Len(ret[1]) = Len(inputs)

OutputsInStepOrder_witness ==
    /\ pc = "returned"
    /\ Len(inputs) = MaxSteps
    /\ Len(ret[1]) = MaxSteps
    /\ ret[1][1] # ret[1][2]

ValidCall ==
    /\ Len(inputs) >= 1
    /\ \A k \in 1..Len(inputs) : inputs[k].shape = <<Batch, num_inputs>>
    /\ \/ init_state.kind = "None"
       \/ /\ init_state.kind = "tuple"
          /\ Len(init_state.items) = 1
          /\ init_state.items[1].shape = <<Batch, num_hiddens>>

\* C4: in a call within the contract every hidden state of the output list
\* and the returned final state have shape (batch_size, num_hiddens).
HiddenShapePreserved ==
    ValidCall =>
        /\ pc # "raised"
        /\ \A k \in 1..Len(outputs) :
              outputs[k].shape = <<Batch, num_hiddens>>
        /\ pc = "returned" =>
              /\ ret[2].shape = <<Batch, num_hiddens>>
              /\ \A k \in 1..Len(ret[1]) :
                    ret[1][k].shape = <<Batch, num_hiddens>>

HiddenShapePreserved_witness ==
    /\ ValidCall
    /\ pc = "returned"
    /\ Len(inputs) >= 2
    /\ Batch = 1
    /\ num_hiddens = MaxDim
    /\ num_inputs # num_hiddens

\* C5: a step without previous state equals the step with an all-zero
\* previous state of shape (batch_size, num_hiddens), and a call without
\* initial state ends as the call with the all-zero initial state does, with
\* the same outputs.
AbsentStateIsZeroState ==
    /\ (pc = "loop" /\ t < Len(inputs) /\ Rank(inputs[t + 1]) = 2) =>
          LET X == inputs[t + 1] IN
          RecurrentCellStep(X, None, W_xh, W_hh, b_h)
          = RecurrentCellStep(X, Zeros(<<X.shape[1], num_hiddens>>),
                              W_xh, W_hh, b_h)
    /\ (/\ pc \in {"returned", "raised"}
        /\ init_state.kind = "None"
        /\ Len(inputs) >= 1
        /\ Rank(inputs[1]) = 2) =>
           LET z == Forward(inputs,
                            TupleArg(<<Zeros(<<Batch, num_hiddens>>)>>),
                            W_xh, W_hh, b_h)
           IN  /\ z.raised = (pc = "raised")
               /\ pc = "returned" => z.ret = ret

AbsentStateIsZeroState_witness ==
    /\ pc = "returned"
    /\ init_state.kind = "None"
    /\ Len(inputs) >= 2
    /\ Rank(inputs[1]) = 2
    /\ updates >= 1
    /\ \E idx \in 1..Len(ret[2].v) : ret[2].v[idx] # 0

\* A step operand that breaks the error conditions of the step: the second
\* dimension of x is not num_inputs, or that of the previous state is not
\* num_hiddens.
ShapeViolation(X, st) ==
    \/ Rank(X) = 2 /\ X.shape[2] # num_inputs
    \/ st # None /\ Rank(st) = 2 /\ st.shape[2] # num_hiddens

\* C6: a step whose x has a second dimension other than num_inputs, or whose
\* previous state has a second dimension other than num_hiddens, fails with
\* the shape-mismatch error.
ShapeViolationRaises ==
    [][(/\ pc = "loop"
        /\ t < Len(inputs)
        /\ ShapeViolation(inputs[t + 1], state))
       => (pc' = "raised" /\ err' = "ShapeMismatch")]_vars

ShapeViolationRaises_witness ==
    /\ pc = "raised"
    /\ err = "ShapeMismatch"
    /\ t >= 1
    /\ Rank(inputs[t + 1]) = 2
    /\ inputs[t + 1].shape[2] # num_inputs

\* An operand outside the contract of the step: x is not a matrix
\* (batch_size, num_inputs), or the previous state is not a matrix
\* (batch_size, num_hiddens) with the batch size of x.
ContractViolation(X, st) ==
    \/ Rank(X) # 2
    \/ X.shape[2] # num_inputs
    \/ st # None /\ st.shape # <<X.shape[1], num_hiddens>>

\* C7: no step completes on operands outside the contract (nothing is
\* broadcast or coerced into a result), and a shape error is raised before
\* any matrix product of the step has been computed.
ViolationNeverCoerced ==
    /\ \A k \in 1..t : ~ContractViolation(inputs[k], PrevLocal(k))
    /\ (pc = "raised" /\ err = "ShapeMismatch") => matmuls = 0

\* C8: a call that raises on a shape violation, at the first or a later
\* step, leaves the parameters and the caller's initial state as they were
\* at entry and returns nothing.
FailedCallChangesNothing ==
    (pc = "raised" /\ err = "ShapeMismatch") =>
        /\ params = before[1]
        /\ init_state = before[2]
        /\ ret = <<>>

FailedCallChangesNothing_witness ==
    /\ pc = "raised"
    /\ err = "ShapeMismatch"
    /\ t >= 1
    /\ Len(outputs) >= 1
    /\ init_state.kind = "tuple"
    /\ updates >= 1

\* C9: an initial state supplied as a matrix (batch_size, num_hiddens) is
\* accepted and is the previous state of the first step.
MatrixStateAccepted ==
    (init_state.kind = "array"
     /\ init_state.items[1].shape[2] = num_hiddens) =>
        /\ err # "ValueError"
        /\ (pc = "loop" /\ t = 0) => state = init_state.items[1]

\* C10: a step that changes W_xh, W_hh or b_h is an external training
\* update taken while no call is in progress; no step of __call__ does.
ForwardKeepsParams ==
    [][params' # params =>
          (pc = "idle" /\ pc' = "idle" /\ updates' = updates + 1)]_vars

ForwardKeepsParams_witness ==
    /\ pc = "returned"
    /\ updates = 0
    /\ Len(ret[1]) = MaxSteps
    /\ W_xh = HeNormal(0, <<num_inputs, num_hiddens>>)
    /\ b_h = Zeros(<<num_hiddens>>)

\* The outcome of the call in progress: whether it raised, and what it
\* returned.
Outcome == [raised |-> pc = "raised", ret |-> ret]

\* C11: the instance keeps no hidden state between calls: whatever calls
\* were made on it before, a call that ends has the outcome (returned outputs
\* and final state, or an exception) that its inputs, its initial state and
\* the current parameters alone determine, so two calls that agree on these
\* agree on the outcome; and no call draws a key from the rngs stream.
NoHiddenStateBetweenCalls ==
    /\ rngs = 3
    /\ (pc \in {"returned", "raised"}) =>
           Outcome = Forward(inputs, init_state, W_xh, W_hh, b_h)

NoHiddenStateBetweenCalls_witness ==
    /\ called
    /\ pc = "returned"
    /\ Len(inputs) >= 2
    /\ init_state.kind = "tuple"
    /\ ret[2] # Zeros(ret[2].shape)

\* C12: when calls on the same instance interleave step by step in any
\* order, and nothing writes the parameters, every call computes what it
\* computes alone: each hidden state of its chain is the step function of
\* its own input and its own previous state, and the call ends with the
\* outcome of the recurrence on its own arguments.
InterleavedCallsIndependent ==
    \A c \in Callers :
        LET f == par[c] IN
        /\ \A k \in 1..Len(f.outputs) :
               f.outputs[k] =
                   RecurrentCellStep(f.inputs[k],
                                     IF k = 1 THEN EntryState(f.init_state)
                                     ELSE f.outputs[k - 1],
                                     W_xh, W_hh, b_h)
        /\ (f.pc = "loop" /\ f.t > 0) => f.state = f.outputs[f.t]
        /\ (f.pc \in {"returned", "raised"}) =>
               [raised |-> f.pc = "raised", ret |-> f.ret] =
                   Forward(f.inputs, f.init_state, W_xh, W_hh, b_h)

InterleavedCallsIndependent_witness ==
    /\ \A c \in Callers :
           /\ par[c].pc = "loop"
           /\ par[c].t >= 1
           /\ par[c].t < Len(par[c].inputs)
    /\ par[1].state # par[2].state
    /\ par[1].inputs # par[2].inputs

\* The entries of the hidden states produced so far by the call in progress.
OutputEntries ==
    UNION { { outputs[k].v[idx] : idx \in 1..Len(outputs[k].v) } :
            k \in 1..Len(outputs) }

\* C13 as stated: every entry of a step's output lies strictly between -1
\* and 1, neither bound being attained.  The rounded tanh of the array
\* library reaches exactly 1.0 and -1.0 for pre-activations of large
\* magnitude, so this fails.
OutputsStrictlyInsideUnitInterval ==
    \A e \in OutputEntries : -Scale < e /\ e < Scale

\* C13: every entry of a step's output lies between -1 and 1, the bounds
\* included, whatever the magnitude of the pre-activation.
OutputsWithinUnitInterval ==
    \A e \in OutputEntries : -Scale <= e /\ e <= Scale

OutputsWithinUnitInterval_witness ==
    /\ pc = "returned"
    /\ \E e \in OutputEntries : e = Scale \/ e = -Scale
    /\ \E e \in OutputEntries : -Scale < e /\ e < Scale

\* The hidden states the call in progress has produced: its output list, its
\* local state once a step has run, and what it returned.
Produced ==
    { outputs[k] : k \in 1..Len(outputs) }
    \cup (IF pc \in {"loop", "returned"} /\ t > 0 THEN {state} ELSE {})
    \cup (IF pc = "returned" /\ t > 0 THEN {ret[2]} ELSE {})

HiddenDimConsistentNow ==
    /\ W_xh.shape = <<num_inputs, num_hiddens>>
    /\ Len(W_xh.v) = num_inputs * num_hiddens
    /\ W_hh.shape = <<num_hiddens, num_hiddens>>
    /\ Len(W_hh.v) = num_hiddens * num_hiddens
    /\ b_h.shape = <<num_hiddens>>
    /\ Len(b_h.v) = num_hiddens
    /\ \A h \in Produced :
          /\ Rank(h) \in {1, 2}
          /\ h.shape[Rank(h)] = num_hiddens
          /\ Rank(h) = 2 => Len(h.v) = h.shape[1] * num_hiddens

BiasOverBatch == Add(Zeros(<<Scenario.batch_size, Scenario.num_hiddens>>), b_h)

\* C15 as stated: in the worked example the output of step 1 is tanh(b_h)
\* broadcast over the batch and the output of step 2 is
\* tanh(X W_xh + tanh(b_h) W_hh + b_h).  The code adds X W_xh at the first
\* step too, so this fails whenever X W_xh is not zero.
ScenarioFirstOutputIsTanhBias ==
    (pc = "returned" /\ inputs = ScenarioX /\ init_state = NoneArg) =>
        /\ ret[1][1] = Tanh(BiasOverBatch)
        /\ ret[1][2] = Tanh(Add(Add(MatMul(ScenarioX[2], W_xh),
                                    MatMul(Tanh(BiasOverBatch), W_hh)),
                                b_h))

\* C15: in the worked example (2 inputs, 3 hidden units, batch of 2, 2 steps
\* of all-ones inputs, no initial state) the call returns two outputs of
\* shape (2, 3): the output of step 1 is tanh(X W_xh + b_h), with b_h
\* broadcast over the batch, the output of step 2 is
\* tanh(X W_xh + h1 W_hh + b_h) where h1 is the output of step 1, and the
\* final state is the output of step 2.
ScenarioOutputs ==
    (pc = "returned" /\ inputs = ScenarioX /\ init_state = NoneArg) =>
        /\ Len(ret[1]) = Scenario.num_steps
        /\ ret[1][1].shape = <<Scenario.batch_size, Scenario.num_hiddens>>
        /\ ret[1][1] = Tanh(Add(MatMul(ScenarioX[1], W_xh), b_h))
        /\ ret[1][2] = Tanh(Add(Add(MatMul(ScenarioX[2], W_xh),
                                    MatMul(ret[1][1], W_hh)),
                                b_h))
        /\ ret[2] = ret[1][2]

ScenarioOutputs_witness ==
    /\ pc = "returned"
    /\ inputs = ScenarioX
    /\ init_state = NoneArg
    /\ updates = 0
    /\ ret[1][1] # Tanh(BiasOverBatch)
    /\ ret[1][2] # ret[1][1]

\* C16: for a token matrix X of shape (batch_size, num_steps) whose entries
\* are vocabulary indices, one_hot returns a tensor of shape (num_steps,
\* batch_size, vocab_size) whose entry [t][b][v] is 1 exactly when
\* X[b][t] = v and 0 otherwise.
OneHotIsTransposedIndicator ==
    lm_pc = "returned" =>
        LET bs == tokens.shape[1]
            ns == tokens.shape[2]
        IN  /\ embs.shape = <<ns, bs, vocab_size>>
            /\ Len(embs.v) = ns * bs * vocab_size
            /\ \A tt \in 1..ns, bb \in 1..bs, vv \in 0..(vocab_size - 1) :
                   embs.v[((tt - 1) * bs + (bb - 1)) * vocab_size + vv + 1]
                   = IF tokens.v[(bb - 1) * ns + tt] = vv THEN Scale ELSE 0

OneHotIsTransposedIndicator_witness ==
    /\ lm_pc = "returned"
    /\ tokens.shape = <<MaxDim, MaxSteps>>
    /\ vocab_size = MaxVocab
    /\ \E i, j \in 1..Len(tokens.v) : tokens.v[i] # tokens.v[j]

\* C17: in the Net with tied parameters both applications of `shared` in a
\* forward pass read the same parameter set, the one `shared` holds now, so
\* that a change of it reaches both applications; the result is
\* net2(relu(shared(relu(shared(relu(net1(x))))))) with that one set; and
\* splitting the network yields exactly the 3 top-level parameter groups
\* net1, shared, net2.
SharedLayerIsTied ==
    /\ DOMAIN Split(net).params = {"net1", "shared", "net2"}
    /\ Cardinality(DOMAIN Split(net).params) = 3
    /\ \A k \in 1..Len(net_reads) :
          k \in {2, 3} =>
              /\ net_reads[k].layer = "shared"
              /\ net_reads[k].params = net.shared
    /\ net_pc = 4 =>
          /\ Len(net_reads) = 4
          /\ net_reads[2].params = net_reads[3].params
          /\ net_x = Linear(net.net2,
                       Relu(Linear(net.shared,
                        Relu(Linear(net.shared,
                         Relu(Linear(net.net1, net_in)))))))

SharedLayerIsTied_witness ==
    /\ net_pc = 4
    /\ net.shared # Net_init(4).shared
    /\ net_x # Linear(net.net2,
                     Relu(Linear(Net_init(4).shared,
                      Relu(Linear(net.shared,
                       Relu(Linear(net.net1, net_in)))))))

\* C18: the synthetic regression data is generated with the ground truth
\* w = [2, -3.4] and b = 4.2: every label is 2 x1 - 3.4 x2 + 4.2 plus its
\* noise term.  The call passes w = [2, 3.4], so this fails for every row
\* with x2 # 0.
LabelsFollowDocumentedTruth ==
    \A i \in 1..Len(labels) :
        labels[i] = 20 * features[i][1] - 34 * features[i][2] + 42 + noises[i]

\* C19: for an input of shape (B, 28, 28, C), C the model's in_channels,
\* the forward pass of LeNet has the shapes (B, 28, 28, 6) after conv1,
\* (B, 14, 14, 6) after pooling, (B, 10, 10, 16) after conv2, (B, 5, 5, 16)
\* after pooling, each pooling dividing the number of spatial positions by
\* 4; the flattened feature has size 400, which is the input size of
\* linear1; the dense layers give 120, 84 and num_classes, and the result
\* has shape (B, num_classes); no operation raises.
LeNetShapes ==
    (/\ lenet_in # <<>>
     /\ lenet_in[2] = 28
     /\ lenet_in[3] = 28
     /\ lenet_in[4] = lenet.conv1.in_features) =>
        LET B == lenet_in[1] IN
        /\ lenet_x # NoShape
        /\ lenet_pc = 1 => lenet_x = <<B, 28, 28, 6>>
        /\ lenet_pc = 2 => /\ lenet_x = <<B, 14, 14, 6>>
                           /\ 4 * Positions(lenet_x) = 28 * 28
        /\ lenet_pc = 3 => lenet_x = <<B, 10, 10, 16>>
        /\ lenet_pc = 4 => /\ lenet_x = <<B, 5, 5, 16>>
                           /\ 4 * Positions(lenet_x) = 10 * 10
        /\ lenet_pc = 5 => /\ lenet_x = <<B, 400>>
                           /\ lenet_x[2] = lenet.linear1.in_features
        /\ lenet_pc = 6 => lenet_x = <<B, 120>>
        /\ lenet_pc = 7 => lenet_x = <<B, 84>>
        /\ lenet_pc = 8 => lenet_x = <<B, lenet.linear3.out_features>>

LeNetShapes_witness ==
    /\ lenet_in = <<MaxBatch, 28, 28, 1>>
    /\ lenet = LeNet_init(1, 10)
    /\ lenet_pc = 8
    /\ lenet_x = <<MaxBatch, 10>>

\* The number of batches the claim gives for the settings.
ExpectedBatches == (n_train * n_epoch) \div batch_size

TrainingCountsNow ==
    /\ batch \in {0, batch_size}
    /\ train_pc = "step" =>
          /\ batch = batch_size
          /\ step = steps_run
          /\ step < ExpectedBatches
    /\ yielded <= ExpectedBatches
    /\ train_pc = "done" =>
          /\ yielded = ExpectedBatches
          /\ steps_run = ExpectedBatches
          /\ ExpectedBatches > 0 => step = ExpectedBatches - 1
          /\ <<n_train, n_epoch, batch_size>> = <<60000, 10, 256>> =>
                 steps_run = 2343 /\ step = 2342

\* C20: the training dataset yields exactly floor(n_train * n_epoch /
\* batch_size) batches (2343 for 60000 examples, n_epoch = 10 and
\* batch_size = 256), each of exactly batch_size examples, the examples
\* left over being dropped; the training loop runs train_step once per
\* batch, with the indices 0, 1, ... in order (0..2342), and terminates
\* after exactly that many steps.
TrainingRunsFloorManySteps ==
    /\ []TrainingCountsNow
    /\ <>(train_pc = "done")

TrainingRunsFloorManySteps_witness ==
    /\ train_pc = "done"
    /\ <<n_train, n_epoch, batch_size>> = <<60000, 10, 256>>
    /\ steps_run = 2343
    /\ (n_train * n_epoch) % batch_size > 0


\* The lists of metrics_history.
HistoryLists == {"train_loss", "train_accuracy", "test_loss", "test_accuracy"}

\* The steps s of 0..n-1 with s > 0 and s a multiple of eval_every, in order.
DueSteps(n) ==
    [i \in 1..(IF n >= 1 THEN (n - 1) \div eval_every ELSE 0) |-> i * eval_every]

EvaluationsNow ==
    /\ train_pc \in {"record_train", "eval"}
          => step > 0 /\ step % eval_every = 0
    /\ train_pc = "step" => eval_log = DueSteps(step)
    /\ train_pc = "record_train" => eval_log = DueSteps(step)
    /\ train_pc = "eval" => eval_log = DueSteps(step + 1)
    /\ train_pc \in {"iter", "done"} => eval_log = DueSteps(steps_run)
    /\ \A i \in 1..Len(eval_log) : eval_log[i] # 0
    /\ train_pc = "done" /\ yielded >= 1
          => /\ \A l \in HistoryLists :
                   Len(metrics_history[l]) = (yielded - 1) \div eval_every
             /\ yielded = 2343 /\ eval_every = 250
                   => \A l \in HistoryLists : Len(metrics_history[l]) = 9

\* C21: an evaluation pass follows training step s exactly when s > 0 and s
\* is a multiple of eval_every, so none follows step 0; the loop ends, and
\* then, N >= 1 batches having been yielded, each of the four lists of
\* metrics_history has floor((N - 1) / eval_every) entries, 9 for the
\* notebook's 2343 batches and eval_every = 250.
EvaluationEveryPeriod == []EvaluationsNow /\ <>(train_pc = "done")

EvaluationEveryPeriod_witness ==
    /\ train_pc = "done"
    /\ yielded = 2343
    /\ eval_log = [i \in 1..9 |-> 250 * i]
    /\ Len(metrics_history.test_accuracy) = 9


\* C22: train and test metrics never mix.  The accumulator is empty when an
\* evaluation pass begins and when training resumes after one; during the
\* pass it covers test batches only and during training training batches
\* only; no recorded train entry covers a test batch and no recorded test
\* entry covers a training batch.
MetricsNeverMix ==
    /\ train_pc = "eval" /\ test_batches = 0 => metrics = EmptyMetrics
    /\ train_pc = "eval"
          => metrics.over.n_train = 0 /\ metrics.over.n_test = test_batches
    /\ train_pc = "iter" /\ eval_log # <<>> /\ steps_run = eval_log[Len(eval_log)] + 1
          => metrics = EmptyMetrics
    /\ train_pc \in {"iter", "step", "record_train", "done"}
          => metrics.over.n_test = 0
    /\ \A l \in {"train_loss", "train_accuracy"} :
          \A i \in 1..Len(metrics_history[l]) :
             /\ metrics_history[l][i].over.n_test = 0
             /\ metrics_history[l][i].over.n_train > 0
    /\ \A l \in {"test_loss", "test_accuracy"} :
          \A i \in 1..Len(metrics_history[l]) :
             /\ metrics_history[l][i].over.n_train = 0
             /\ metrics_history[l][i].over.n_test = n_test \div batch_size

MetricsNeverMix_witness ==
    /\ train_pc = "iter"
    /\ metrics = EmptyMetrics
    /\ Len(metrics_history.test_loss) = 2
    /\ metrics_history.test_loss[2].over.n_test = 39
    /\ metrics_history.train_loss[2].over.n_train = 250


\* What the k-th evaluation finds in the accumulator: the training steps
\* since the reset before, none of the test batches.
TrainSpan(k) ==
    [n_train |-> IF k = 1 THEN eval_every + 1 ELSE eval_every,
     n_test |-> 0,
     first |-> IF k = 1 THEN 0 ELSE (k - 1) * eval_every + 1,
     last |-> k * eval_every]

\* The training steps run after the last evaluation pass so far.
Trailing ==
    IF eval_log = <<>> THEN steps_run
    ELSE steps_run - (eval_log[Len(eval_log)] + 1)

\* C23: the k-th recorded train metric aggregates exactly the training
\* steps since the previous reset, steps 0..eval_every (eval_every + 1
\* batches) for the first entry and the eval_every steps
\* (k-1)*eval_every+1 .. k*eval_every for a later one; the steps after the
\* last evaluation are in the accumulator when the loop ends and in no
\* entry of metrics_history.
TrainEntriesCoverPeriods ==
    /\ \A l \in {"train_loss", "train_accuracy"} :
          \A k \in 1..Len(metrics_history[l]) :
             metrics_history[l][k].over = TrainSpan(k)
    /\ \A k \in 1..Len(metrics_history.train_loss) :
          /\ metrics_history.train_loss[k].value[2] = TrainSpan(k).n_train
          /\ metrics_history.train_accuracy[k].value[2]
                = TrainSpan(k).n_train * batch_size
    /\ train_pc = "done"
          => /\ metrics.over.n_train = Trailing
             /\ metrics.loss.count = Trailing
             /\ Trailing > 0 => metrics.over.last = steps_run - 1
             /\ \A l \in HistoryLists : Len(metrics_history[l]) = Len(eval_log)
             /\ \A k \in 1..Len(metrics_history.train_loss) :
                   metrics_history.train_loss[k].over.last <= eval_log[Len(eval_log)]

TrainEntriesCoverPeriods_witness ==
    /\ train_pc = "done"
    /\ eval_every = 250
    /\ metrics_history.train_loss[1].over.n_train = 251
    /\ metrics_history.train_loss[9].over
          = [n_train |-> 250, n_test |-> 0, first |-> 2001, last |-> 2250]
    /\ metrics.over = [n_train |-> 92, n_test |-> 0, first |-> 2251, last |-> 2342]


\* The list `new` is the list `old` with n entries appended.
Grown(old, new, n) ==
    /\ Len(new) = Len(old) + n
    /\ SubSeq(new, 1, Len(old)) = old

HistoryLengthsNow ==
    /\ train_pc \in {"iter", "step", "record_train", "done"}
          => \A l \in HistoryLists :
                Len(metrics_history[l]) = Len(metrics_history.train_loss)
    /\ train_pc = "eval"
          => /\ Len(metrics_history.train_accuracy) = Len(metrics_history.train_loss)
             /\ Len(metrics_history.test_accuracy) = Len(metrics_history.test_loss)
             /\ Len(metrics_history.train_loss) = Len(metrics_history.test_loss) + 1

HistoryGrows ==
    \/ /\ \A l \in {"train_loss", "train_accuracy"} :
             Grown(metrics_history[l], metrics_history'[l], 1)
       /\ \A l \in {"test_loss", "test_accuracy"} :
             metrics_history'[l] = metrics_history[l]
       /\ Len(metrics_history.train_loss) = Len(metrics_history.test_loss)
    \/ /\ \A l \in {"test_loss", "test_accuracy"} :
             Grown(metrics_history[l], metrics_history'[l], 1)
       /\ \A l \in {"train_loss", "train_accuracy"} :
             metrics_history'[l] = metrics_history[l]
       /\ Len(metrics_history.train_loss) = Len(metrics_history.test_loss) + 1
    \/ metrics_history' = metrics_history

\* C24: at the start of every iteration of the training loop and after the
\* loop the four lists of metrics_history have the same length; a step of
\* the program leaves the lists alone or appends one entry to each of the
\* two train lists, or one entry to each of the two test lists, and the
\* train entries of an evaluation are appended before its test entries.
HistoryListsGrowTogether == []HistoryLengthsNow /\ [][HistoryGrows]_vars

HistoryListsGrowTogether_witness ==
    /\ train_pc = "eval"
    /\ test_batches > 0
    /\ Len(metrics_history.train_accuracy) = 3
    /\ Len(metrics_history.test_accuracy) = 2


UpdatesNow ==
    /\ opt_count = steps_run
    /\ train_pc \in {"iter", "record_train", "eval", "done"}
          => opt_count = yielded
    /\ train_pc = "step" => opt_count = yielded - 1

\* A step of the evaluation (recording the train metrics, an eval_step,
\* recording the test metrics) keeps the parameters and the optimizer; a
\* train_step applies one update; fetching a batch and ending the loop
\* apply none.
ModelFrame ==
    /\ train_pc \in {"record_train", "eval"}
          => model' = model /\ opt_count' = opt_count
    /\ train_pc = "step"
          => opt_count' = opt_count + 1 /\ model' = Stepped(model, step)
    /\ train_pc \in {"iter", "done"}
          => model' = model /\ opt_count' = opt_count

\* C25: eval_step changes neither the parameters of the model nor the
\* state of the optimizer and train_step applies exactly one optimizer
\* update per batch; so the model is the same after an evaluation pass as
\* before it, and the number of updates equals the number of training
\* batches consumed, in particular after the loop.
EvaluationLeavesModelAlone == []UpdatesNow /\ [][ModelFrame]_vars

EvaluationLeavesModelAlone_witness ==
    /\ train_pc = "done"
    /\ Len(eval_log) = 9
    /\ Len(metrics_history.test_loss) = 9
    /\ metrics_history.test_loss[9].over.n_test = 39
    /\ opt_count = 2343

====
